---- MODULE Spec2Model ----
(***************************************************************************)
(* Model of the facets engine of librarian                                 *)
(* (src/librarian/data/facets/archive.py): the FSWriter node materializer, *)
(* its cache, the fs and meta tables, and the Archive facade.              *)
(*                                                                         *)
(* A path string is a sequence of one-character strings, so that           *)
(* os.path.normpath, split, join and dirname are computed, not assumed.    *)
(***************************************************************************)
EXTENDS Integers, Sequences, FiniteSets, TLC

\* ------------------------------------------------------------------ bounds

\* Largest id the fs table's serial column hands out in a run.
MaxId == 4

\* Largest number of tasks the executor holds at once.
MaxTasks == 1

\* Number of callers inside FSWriter.write() at once.
MaxWriters == 2

\* the pending scans the executor holds at most
MaxScans == 2

\* ------------------------------------------------- strings and os.path

Sep == "/"

EmptyStr == <<>>

Dot == <<".">>

DotDot == <<".", ".">>

SepStr == <<Sep>>

\* index of the first Sep in s, or 0
RECURSIVE FindSep(_, _)
FindSep(s, i) ==
    IF i > Len(s) THEN 0
    ELSE IF s[i] = Sep THEN i
    ELSE FindSep(s, i + 1)

\* str.split(os.path.sep)
RECURSIVE Split(_)
\* s split at its first Sep, at index i (0: s holds none)
SplitAt(s, i) ==
    IF i = 0 THEN <<s>>
    ELSE <<SubSeq(s, 1, i - 1)>> \o Split(SubSeq(s, i + 1, Len(s)))

Split(s) == SplitAt(s, FindSep(s, 1))

\* os.path.sep.join(parts)
RECURSIVE Join(_)
Join(parts) ==
    IF Len(parts) = 0 THEN EmptyStr
    ELSE IF Len(parts) = 1 THEN parts[1]
    ELSE parts[1] \o SepStr \o Join(Tail(parts))

\* the loop of posixpath.normpath over the components
RECURSIVE NormComps(_, _, _)
NormComps(comps, acc, initial_slashes) ==
    IF Len(comps) = 0 THEN acc
    ELSE
        NormComps(Tail(comps),
                  IF Head(comps) = EmptyStr \/ Head(comps) = Dot THEN acc
                  ELSE IF Head(comps) # DotDot
                          \/ (initial_slashes = 0 /\ Len(acc) = 0)
                          \/ (Len(acc) > 0 /\ acc[Len(acc)] = DotDot)
                  THEN Append(acc, Head(comps))
                  ELSE IF Len(acc) > 0 THEN SubSeq(acc, 1, Len(acc) - 1)
                  ELSE acc,
                  initial_slashes)

StartsWith(s, n) == Len(s) >= n /\ \A i \in 1..n : s[i] = Sep

\* the number of leading slashes normpath keeps: 0, 1, or 2 for exactly two
InitialSlashes(path) ==
    IF ~StartsWith(path, 1) THEN 0
    ELSE IF StartsWith(path, 2) /\ ~StartsWith(path, 3) THEN 2
    ELSE 1

NormJoin(path, initial_slashes) ==
    [i \in 1..initial_slashes |-> Sep]
        \o Join(NormComps(Split(path), <<>>, initial_slashes))

\* ``path or '.'``
OrDot(path) == IF path = EmptyStr THEN Dot ELSE path

\* posixpath.normpath
normpath(path) ==
    IF path = EmptyStr THEN Dot
    ELSE OrDot(NormJoin(path, InitialSlashes(path)))

\* index of the last Sep in s, or 0
RECURSIVE RFindSep(_, _)
RFindSep(s, i) ==
    IF i = 0 THEN 0
    ELSE IF s[i] = Sep THEN i
    ELSE RFindSep(s, i - 1)

\* str.rstrip('/')
RECURSIVE RStripSep(_)
RStripSep(s) ==
    IF Len(s) > 0 /\ s[Len(s)] = Sep THEN RStripSep(SubSeq(s, 1, Len(s) - 1))
    ELSE s

\* the end of posixpath.dirname: strip the trailing slashes of head unless it
\* is all slashes
DirHead(head) ==
    IF head # EmptyStr /\ ~StartsWith(head, Len(head))
    THEN RStripSep(head)
    ELSE head

\* posixpath.dirname
dirname(p) == DirHead(SubSeq(p, 1, RFindSep(p, Len(p))))

\* posixpath.basename
basename(p) == SubSeq(p, RFindSep(p, Len(p)) + 1, Len(p))

\* ancestors_of(path): the chain from the root to path itself, as a sequence
\* ``os.path.sep.join(parts[0:i + 1]) or os.path.sep``
OrSep(path) == IF path = EmptyStr THEN SepStr ELSE path

\* a variant of the last branch of ancestors_of without ``if parts[0]``: the
\* relative root is yielded for absolute paths too
AncestorsOfPartsWithRelativeRoot(parts) ==
    <<EmptyStr>> \o [i \in 1..Len(parts) |-> OrSep(Join(SubSeq(parts, 1, i)))]

\* the last branch of ancestors_of, over the components of the normalized path
AncestorsOfParts(parts) ==
    (IF parts[1] # EmptyStr THEN <<EmptyStr>> ELSE <<>>)
        \o [i \in 1..Len(parts) |-> OrSep(Join(SubSeq(parts, 1, i)))]

AncestorsOfNormalized(normalized) ==
    IF normalized = SepStr THEN <<normalized>>
    ELSE IF normalized = Dot THEN <<EmptyStr>>
    ELSE AncestorsOfParts(Split(normalized))

ancestors_of(path) == AncestorsOfNormalized(normpath(path))

\* ------------------------------------------------------- content types

\* FSWriter.DEFAULT_CONTENT_TYPE: the bit of ContentTypes.GENERIC
GENERIC == 1

TEXT == 2

HTML == 4

RECURSIVE BitAnd(_, _)
BitAnd(x, y) ==
    IF x = 0 \/ y = 0 THEN 0
    ELSE 2 * BitAnd(x \div 2, y \div 2) + (IF x % 2 = 1 /\ y % 2 = 1 THEN 1 ELSE 0)

RECURSIVE BitOr(_, _)
BitOr(x, y) ==
    IF x = 0 THEN y
    ELSE IF y = 0 THEN x
    ELSE 2 * BitOr(x \div 2, y \div 2) + (IF x % 2 = 1 \/ y % 2 = 1 THEN 1 ELSE 0)

\* (stored & wanted) == wanted
Contains(stored, wanted) == BitAnd(stored, wanted) = wanted

FILE_TYPE == "file"

DIRECTORY_TYPE == "directory"

NO_LANGUAGE == ""

\* ------------------------------------------------------------ the state

VARIABLES
    fs,      \* the fs table: a set of rows [id, parent_id, path, type, content_types]
    meta,    \* the meta table: a set of rows [fs_id, language, key, value]
    cache,   \* the cache: a set of [key, entry], one per live key (CACHE_PREFIX + path)
    nextId,  \* next value of the fs table's serial id
    tasks,   \* the executor's pending tasks, oldest first
    writers, \* per concurrent caller of save: its position in write() and its locals
    scans    \* the executor's pending scans: the kwargs of each, oldest first

vars == <<fs, meta, cache, nextId, tasks, writers, scans>>

CACHE_PREFIX == <<"f", "s", "_">>

\* FSWriter.DEFAULT_ROOT
DEFAULT_ROOT == [id |-> 0]

\* FSWriter._key
_key(path) == CACHE_PREFIX \o path

\* dict.get / cache.get: the entry, or None
None == [none |-> TRUE]

Cached(c, key) == \E e \in c : e.key = key

CacheGet(c, key) == IF Cached(c, key) THEN (CHOOSE e \in c : e.key = key).entry ELSE None

\* cache.set
CacheSet(c, key, entry) == {e \in c : e.key # key} \cup {[key |-> key, entry |-> entry]}

HasRow(f, path) == \E r \in f : r.path = path

\* FSWriter._fetch: SELECT * FROM fs WHERE path = %s
_fetch(f, path) == CHOOSE r \in f : r.path = path

\* a variant of the upsert that, on a conflict on path, deletes the row and
\* inserts a new one under a new id
ReplaceFsNewRow(db, path, parent_id, fs_type, content_types) ==
    [db EXCEPT !.fs = {r \in @ : r.path # path}
                          \cup {[id |-> db.nextId,
                                 parent_id |-> parent_id,
                                 path |-> path,
                                 type |-> fs_type,
                                 content_types |-> content_types]},
               !.nextId = @ + 1,
               !.writes = @ + 1]

\* db.Replace(FS_TABLE, constraints=['path'], cols=FS_COLUMNS): insert, or on a
\* conflict on path update the columns of the row in place (the id is kept)
ReplaceFs(db, path, parent_id, fs_type, content_types) ==
    IF HasRow(db.fs, path)
    THEN [db EXCEPT !.fs = {IF r.path = path
                            THEN [r EXCEPT !.parent_id = parent_id,
                                           !.type = fs_type,
                                           !.content_types = content_types]
                            ELSE r : r \in db.fs},
                    !.writes = @ + 1]
    ELSE [db EXCEPT !.fs = @ \cup {[id |-> db.nextId,
                                    parent_id |-> parent_id,
                                    path |-> path,
                                    type |-> fs_type,
                                    content_types |-> content_types]},
                    !.nextId = @ + 1,
                    !.writes = @ + 1]

\* db.Update(FS_TABLE, where='path = ..', content_types='content_types | ..')
UpdateFs(db, path, content_types) ==
    [db EXCEPT !.fs = {IF r.path = path
                       THEN [r EXCEPT !.content_types = BitOr(@, content_types)]
                       ELSE r : r \in db.fs},
               !.writes = @ + 1]

\* ------------------------------------------------------------- FSWriter

\* the length of the longest prefix of chain that is wholly in the cache
RECURSIVE CachedPrefix(_, _, _)
CachedPrefix(c, chain, i) ==
    IF i > Len(chain) THEN Len(chain)
    ELSE IF CacheGet(c, _key(chain[i])) = None THEN i - 1
    ELSE CachedPrefix(c, chain, i + 1)

\* a variant of the loop over the fetched rows that does not cache them
RECURSIVE FetchLoopUncached(_, _, _, _)
FetchLoopUncached(rows, c, ancestors, missing) ==
    IF Len(rows) = 0
    THEN [cache |-> c, found |-> ancestors, missing |-> missing]
    ELSE FetchLoopUncached(Tail(rows), c, Append(ancestors, Head(rows)),
                           SelectSeq(missing, LAMBDA p : p # Head(rows).path))

\* the loop over the fetched rows: cache each, append it, drop it from missing
RECURSIVE FetchLoop(_, _, _, _)
FetchLoop(rows, c, ancestors, missing) ==
    IF Len(rows) = 0
    THEN [cache |-> c, found |-> ancestors, missing |-> missing]
    ELSE FetchLoop(Tail(rows),
                   CacheSet(c, _key(Head(rows).path), Head(rows)),
                   Append(ancestors, Head(rows)),
                   SelectSeq(missing, LAMBDA p : p # Head(rows).path))

\* SELECT * FROM fs WHERE path IN missing ORDER BY length(path); the paths of a
\* chain come in ascending length
SelectChain(f, hits) == [i \in 1..Len(hits) |-> _fetch(f, hits[i])]

\* _get_chain from the first cache miss on: k entries of path_chain were cached
ChainFrom(db, path_chain, k) ==
    IF k = Len(path_chain)
    THEN [cache |-> db.cache,
          found |-> [i \in 1..k |-> CacheGet(db.cache, _key(path_chain[i]))],
          missing |-> <<>>]
    ELSE FetchLoop(SelectChain(db.fs, SelectSeq(SubSeq(path_chain, k + 1, Len(path_chain)),
                                                LAMBDA p : HasRow(db.fs, p))),
                   db.cache,
                   [i \in 1..k |-> CacheGet(db.cache, _key(path_chain[i]))],
                   SubSeq(path_chain, k + 1, Len(path_chain)))

ChainOf(db, path_chain) == ChainFrom(db, path_chain, CachedPrefix(db.cache, path_chain, 1))

\* FSWriter._get_chain: (found, missing) and the cache as it leaves it
_get_chain(db, path) == ChainOf(db, ancestors_of(path))

\* the end of _create: cache the fetched entry and return it
Cache1(db, path, entry) ==
    [db |-> [db EXCEPT !.cache = CacheSet(@, _key(path), entry)], entry |-> entry]

Fetched(db, path) == Cache1(db, path, _fetch(db.fs, path))

\* FSWriter._create: upsert the row, fetch it, cache it
_create(db, path, parent_id, fs_type, content_types) ==
    Fetched(ReplaceFs(db, path, parent_id, fs_type, content_types), path)

\* _update past the short-circuit: entry is the cached entry or None
\* a variant of the write of _update that changes the cached entry and not the
\* stored row
UpdateWithCacheOnly(db, path, content_types, entry) ==
    IF entry = None
    THEN Fetched(db, path)
    ELSE Cache1(db, path, [entry EXCEPT !.content_types = BitOr(@, content_types)])

UpdateWith(db, path, content_types, entry) ==
    IF entry = None
    THEN Fetched(UpdateFs(db, path, content_types), path)
    ELSE Cache1(UpdateFs(db, path, content_types), path,
                [entry EXCEPT !.content_types = BitOr(@, content_types)])

\* a variant of _update without the cache short-circuit: it writes even when
\* the cached entry already holds content_types
UpdateEntryAlways(db, path, content_types, entry) ==
    UpdateWith(db, path, content_types, entry)

UpdateEntry(db, path, content_types, entry) ==
    IF entry # None /\ Contains(entry.content_types, content_types)
    THEN [db |-> db, entry |-> entry]
    ELSE UpdateWith(db, path, content_types, entry)

\* FSWriter._update
_update(db, path, content_types) ==
    UpdateEntry(db, path, content_types, CacheGet(db.cache, _key(path)))

InSeq(x, s) == \E i \in 1..Len(s) : s[i] = x

\* the content_types write() gives a created entry
CreatedTypesForAll(missing, data) == BitOr(GENERIC, data.content_types)

CreatedTypes(missing, data) ==
    IF missing = data.path
       \/ (missing = dirname(data.path) /\ data.type = FILE_TYPE)
    THEN BitOr(GENERIC, data.content_types)
    ELSE GENERIC

\* the loop of write() over missing_paths; r is the database and the entry
\* ``last``
RECURSIVE CreateLoop(_, _, _)
CreateLoop(r, missing_paths, data) ==
    IF Len(missing_paths) = 0 THEN r
    ELSE CreateLoop(_create(r.db, Head(missing_paths), r.entry.id, data.type,
                            CreatedTypes(Head(missing_paths), data)),
                    Tail(missing_paths), data)

\* ``last = found[-1] if found else self.DEFAULT_ROOT``
LastOf(found) == IF Len(found) > 0 THEN found[Len(found)] ELSE DEFAULT_ROOT

\* a variant of the update of the parent that does not look at the type of
\* the target
UpdateParentOfAny(r, missing_paths, data) ==
    IF ~InSeq(dirname(data.path), missing_paths)
    THEN [db |-> _update(r.db, dirname(data.path), data.content_types).db,
          entry |-> r.entry]
    ELSE r

\* the update of the parent, keeping ``last``
UpdateParent(r, missing_paths, data) ==
    IF ~InSeq(dirname(data.path), missing_paths) /\ data.type = FILE_TYPE
    THEN [db |-> _update(r.db, dirname(data.path), data.content_types).db,
          entry |-> r.entry]
    ELSE r

\* the update of the entry itself
UpdateSelf(r, missing_paths, data) ==
    IF ~InSeq(data.path, missing_paths)
    THEN _update(r.db, data.path, data.content_types)
    ELSE r

WriteChain(db, data, chain) ==
    UpdateSelf(UpdateParent(CreateLoop([db |-> [db EXCEPT !.cache = chain.cache],
                                        entry |-> LastOf(chain.found)],
                                       chain.missing, data),
                            chain.missing, data),
               chain.missing, data)

\* FSWriter.write
write(db, data) == WriteChain(db, data, _get_chain(db, data.path))

\* FSWriter.update
update(db, data) == _update(db, data.path, data.content_types)

\* --------------------------------------------------- processors (external)

\* ContentTypes.keys(None): the metadata field names valid for any content type
ValidKeys == {"title", "main"}

\* Processor.is_entry_point of the processors resolved for path
IsEntryPoint(path) == basename(path) = <<"i">>

\* the bitmask the processors of path contribute (ContentTypes.to_bitmask)
ProcBits(path) == IF IsEntryPoint(path) THEN HTML ELSE TEXT

EmptyDict == [x \in {} |-> x]

Dict1(k, v) == [x \in {k} |-> v]

\* what process_file of the processors gathers for path
ProcessFile(path, partial) ==
    [path |-> path,
     type |-> FILE_TYPE,
     content_types |-> ProcBits(path),
     metadata |-> IF partial THEN EmptyDict
                  ELSE Dict1("en", Dict1("title", basename(path)))]

\* ------------------------------------------------------- Archive: writing

\* Archive._strip with content_type=None
_strip(metadata) ==
    [k \in {x \in DOMAIN metadata : x \in ValidKeys} |-> metadata[k]]

\* the rows _save_metadata upserts: one per pair of every cleaned section
MetaRows(fs_id, cleaned) ==
    {[fs_id |-> fs_id, language |-> lk[1], key |-> lk[2], value |-> cleaned[lk[1]][lk[2]]] :
        lk \in {x \in (DOMAIN cleaned) \X ValidKeys : x[2] \in DOMAIN cleaned[x[1]]}}

\* db.Replace(META_TABLE, constraints=['fs_id', 'language', 'key'], ..): a row
\* of new replaces the row with its fs_id, language and key
ReplaceMeta(m, new) ==
    {r \in m : ~\E n \in new : n.fs_id = r.fs_id /\ n.language = r.language
                               /\ n.key = r.key}
        \cup new

SaveCleaned(db, fs_id, cleaned) ==
    [db |-> [db EXCEPT !.meta = ReplaceMeta(@, MetaRows(fs_id, cleaned))],
     cleaned |-> cleaned]

\* Archive._save_metadata
_save_metadata(db, fs_id, metadata) ==
    SaveCleaned(db, fs_id, [language \in DOMAIN metadata |-> _strip(metadata[language])])

\* the end of save: w is what write() returned
SaveWritten(w, m) == [db |-> m.db, saved |-> [entry |-> w.entry, metadata |-> m.cleaned]]

SaveMeta(w, data) == SaveWritten(w, _save_metadata(w.db, w.entry.id, data.metadata))

\* Archive.save
save(db, data) == SaveMeta(write(db, data), data)

\* Archive._entry_point_found
_entry_point_found(db, path, content_type) ==
    save(db, [path |-> dirname(path),
              metadata |-> Dict1(NO_LANGUAGE, Dict1("main", basename(path))),
              type |-> DIRECTORY_TYPE,
              content_types |-> content_type]).db

\* the callback of _analyze: "save" is Archive.save, "none" no callback
Callback(db, wrapped, callback) ==
    [db |-> IF callback = "save" THEN save(db, wrapped).db ELSE db,
     wrapped |-> wrapped]

\* Archive._analyze
_analyze(db, path, partial, callback) ==
    Callback(IF IsEntryPoint(path)
             THEN _entry_point_found(db, path, ProcBits(path))
             ELSE db,
             ProcessFile(path, partial), callback)

\* one step of analysing the paths in order
Analyzed(r, paths, partial, callback, acc) ==
    [db |-> r.db, rest |-> Tail(paths), metas |-> Append(acc, r.wrapped)]

\* Archive.analyze: _analyze over the paths in order; returns the database and
\* the data of each path
RECURSIVE AnalyzeAll(_, _, _, _, _)
AnalyzeStep(a, partial, callback) ==
    AnalyzeAll(a.db, a.rest, partial, callback, a.metas)

AnalyzeAll(db, paths, partial, callback, acc) ==
    IF Len(paths) = 0 THEN [db |-> db, metas |-> acc]
    ELSE AnalyzeStep(Analyzed(_analyze(db, Head(paths), partial, callback),
                              paths, partial, callback, acc),
                     partial, callback)

\* Archive.save_many
RECURSIVE save_many(_, _)
save_many(db, metas) ==
    IF Len(metas) = 0 THEN db
    ELSE save_many(save(db, Head(metas)).db, Tail(metas))

\* Archive.remove: delete the meta rows joined on the fs rows of paths, then
\* those fs rows
\* a variant of remove that cascades: it also deletes the rows directly under
\* the removed paths
removeCascade(db, paths) ==
    [db EXCEPT !.meta = {m \in @ : \A r \in db.fs :
                            (r.path \in paths \/ dirname(r.path) \in paths)
                                => m.fs_id # r.id},
               !.fs = {r \in @ : r.path \notin paths /\ dirname(r.path) \notin paths}]

remove(db, paths) ==
    LET ids == {r.id : r \in {x \in db.fs : x.path \in paths}} IN
    [db EXCEPT !.meta = {m \in @ : m.fs_id \notin ids},
               !.fs = {r \in @ : r.path \notin paths}]

\* Archive.clear
clear(db) == [db EXCEPT !.meta = {}, !.fs = {}]

\* ------------------------------------------------------- Archive: reading

\* the code point of a character of the model's alphabet
CharCode(c) ==
    CASE c = "." -> 46
      [] c = "/" -> 47
      [] c = "a" -> 97
      [] c = "b" -> 98
      [] c = "f" -> 102
      [] c = "g" -> 103
      [] c = "i" -> 105

\* p < q as strings
RECURSIVE StrLess(_, _)
StrLess(p, q) ==
    IF Len(q) = 0 THEN FALSE
    ELSE IF Len(p) = 0 THEN TRUE
    ELSE IF Head(p) # Head(q) THEN CharCode(Head(p)) < CharCode(Head(q))
    ELSE StrLess(Tail(p), Tail(q))

\* the paths of S in ascending order (ORDER BY fs.path)
RECURSIVE OrderByPath(_)
LeastFirst(S, least) == <<least>> \o OrderByPath(S \ {least})

OrderByPath(S) ==
    IF S = {} THEN <<>>
    ELSE LeastFirst(S, CHOOSE p \in S : \A q \in S \ {p} : StrLess(p, q))

\* the elements of a set, in the order a query without ORDER BY returns them
RECURSIVE SetToSeq(_)
OneFirst(S, x) == <<x>> \o SetToSeq(S \ {x})

SetToSeq(S) ==
    IF S = {} THEN <<>>
    ELSE OneFirst(S, CHOOSE y \in S : TRUE)

\* SQL NULL / Python None in a column of a joined row
Null == "<null>"

\* ``if key:``
Truthy(key) == key # Null /\ key # ""

\* a joined row: the fs columns of r and the meta columns
JoinedRow(r, l, k, v) ==
    [path |-> r.path, id |-> r.id, parent_id |-> r.parent_id,
     type |-> r.type, content_types |-> r.content_types,
     language |-> l, key |-> k, value |-> v]

JoinedWith(r, ms) ==
    IF Len(ms) = 0 THEN <<JoinedRow(r, Null, Null, Null)>>
    ELSE [i \in 1..Len(ms) |-> JoinedRow(r, ms[i].language, ms[i].key, ms[i].value)]

\* one fs row joined with its meta rows: a row per meta entry, or a single row
\* with null meta columns (the outer join)
Joined(db, r) == JoinedWith(r, SetToSeq({m \in db.meta : m.fs_id = r.id}))

RECURSIVE Concat(_)
Concat(ss) == IF Len(ss) = 0 THEN <<>> ELSE Head(ss) \o Concat(Tail(ss))

JoinAll(db, ordered) ==
    Concat([i \in 1..Len(ordered) |-> Joined(db, _fetch(db.fs, ordered[i]))])

\* the query of Archive.get: meta RIGHT OUTER JOIN fs ON fs.id = meta.fs_id
\* WHERE fs.path IN paths [AND (fs.content_types & bitmask) = bitmask]
\* ORDER BY fs.path; bitmask 0 stands for no content_type filter
GetQuery(db, paths, bitmask) ==
    JoinAll(db, OrderByPath({r.path : r \in {x \in db.fs :
                                x.path \in paths /\ Contains(x.content_types, bitmask)}}))

\* data.setdefault(language, {}); data[language][key] = value
SetKey(data, section, language, key, value) ==
    [l \in DOMAIN data \cup {language} |->
        IF l = language
        THEN [k \in DOMAIN section \cup {key} |-> IF k = key THEN value ELSE section[k]]
        ELSE data[l]]

SetRow(data, row) ==
    IF Truthy(row.key)
    THEN SetKey(data,
                IF row.language \in DOMAIN data THEN data[row.language] ELSE EmptyDict,
                row.language, row.key, row.value)
    ELSE data

\* the inner loop of _reconstruct_meta over one group of rows
RECURSIVE GroupData(_, _)
GroupData(rows, data) ==
    IF Len(rows) = 0 THEN data
    ELSE GroupData(Tail(rows), SetRow(data, Head(rows)))

\* a variant of the grouping that never joins two rows into one group
RunLenOfOne(rows, i) == 1

\* the length of the run of rows at the head of rows that share its path
\* (itertools.groupby groups consecutive rows only)
RECURSIVE RunLen(_, _)
RunLen(rows, i) ==
    IF i < Len(rows) /\ rows[i + 1].path = rows[1].path THEN RunLen(rows, i + 1)
    ELSE i

\* the view of one group: the fs columns are those of its last row (``row``
\* leaks out of the inner loop)
View(group, row) ==
    [path |-> group[1].path,
     id |-> row.id,
     parent_id |-> row.parent_id,
     type |-> row.type,
     content_types |-> row.content_types,
     metadata |-> GroupData(group, EmptyDict)]

RECURSIVE _reconstruct_meta(_)
ReconstructRun(rows, n) ==
    <<View(SubSeq(rows, 1, n), rows[n])>> \o _reconstruct_meta(SubSeq(rows, n + 1, Len(rows)))

\* Archive._reconstruct_meta: one view per run of equal paths, in input order
_reconstruct_meta(rows) ==
    IF Len(rows) = 0 THEN <<>>
    ELSE ReconstructRun(rows, RunLen(rows, 1))

\* dict((meta.path, meta) for meta in ..): a later view of a path replaces an
\* earlier one
RECURSIVE ToDict(_, _)
ToDict(views, acc) ==
    IF Len(views) = 0 THEN acc
    ELSE ToDict(Tail(views),
                [p \in DOMAIN acc \cup {Head(views).path} |->
                    IF p = Head(views).path THEN Head(views) ELSE acc[p]])

\* dict.update
DictUpdate(d, e) == [k \in DOMAIN d \cup DOMAIN e |-> IF k \in DOMAIN e THEN e[k] ELSE d[k]]

\* Processor.for_type(content_type).can_process(path)
CanProcess(content_type, path) == ProcBits(path) = content_type

\* Archive._keep_supported
_keep_supported(paths, content_type) == {p \in paths : CanProcess(content_type, p)}

\* the values of a {path: data} mapping, in the order values_order
Values(metas, values_order) ==
    [i \in 1..Len(values_order) |-> metas[values_order[i]]]

\* get with partial: the full analysis is scheduled (the paths in todo are one
\* batch, so one task), the partial one is done now
GetPartial(data, a, todo) ==
    [db |-> a.db,
     scheduled |-> <<todo>>,
     ret |-> DictUpdate(data, ToDict(a.metas, EmptyDict))]

\* get without partial: the full analysis is done now and saved
GetFull(data, a, metas, values) ==
    [db |-> save_many(a.db, Values(metas, values)),
     scheduled |-> <<>>,
     ret |-> DictUpdate(data, metas)]

GetFullOf(data, a, values) == GetFull(data, a, ToDict(a.metas, EmptyDict), values)

\* a variant of get that does not look at ignore_missing: it analyses the
\* missing paths whenever there are any
GetMissingAnalyzed(db, data, missing, partial, ignore_missing, order, values_order) ==
    IF missing = {}
    THEN [db |-> db, scheduled |-> <<>>, ret |-> data]
    ELSE IF partial
    THEN GetPartial(data,
                    AnalyzeAll(db, SelectSeq(order, LAMBDA p : p \in missing),
                               TRUE, "none", <<>>),
                    SelectSeq(order, LAMBDA p : p \in missing))
    ELSE GetFullOf(data,
                   AnalyzeAll(db, SelectSeq(order, LAMBDA p : p \in missing),
                              FALSE, "none", <<>>),
                   SelectSeq(values_order, LAMBDA p : p \in missing))

\* get past the query: data is what the store holds of paths; order is the
\* order in which the set of missing paths is iterated, values_order the order
\* of metas.values()
GetMissing(db, data, missing, partial, ignore_missing, order, values_order) ==
    IF ignore_missing \/ missing = {}
    THEN [db |-> db, scheduled |-> <<>>, ret |-> data]
    ELSE IF partial
    THEN GetPartial(data,
                    AnalyzeAll(db, SelectSeq(order, LAMBDA p : p \in missing),
                               TRUE, "none", <<>>),
                    SelectSeq(order, LAMBDA p : p \in missing))
    ELSE GetFullOf(data,
                   AnalyzeAll(db, SelectSeq(order, LAMBDA p : p \in missing),
                              FALSE, "none", <<>>),
                   SelectSeq(values_order, LAMBDA p : p \in missing))

\* a variant of get that takes no path for missing: it returns what the store
\* holds whatever ignore_missing says
GetDataFoundOnly(db, paths, data, partial, ignore_missing, order, values_order) ==
    GetMissing(db, data, {}, partial, ignore_missing, order, values_order)

GetData(db, paths, data, partial, ignore_missing, order, values_order) ==
    GetMissing(db, data, paths \ DOMAIN data, partial, ignore_missing,
               order, values_order)

GetPaths(db, paths, content_type, partial, ignore_missing, order, values_order) ==
    IF content_type # 0 /\ paths = {}
    THEN [db |-> db, scheduled |-> <<>>, ret |-> EmptyDict]
    ELSE GetData(db, paths,
                 ToDict(_reconstruct_meta(GetQuery(db, paths, content_type)), EmptyDict),
                 partial, ignore_missing, order, values_order)

\* Archive.get on one batch; content_type 0 stands for None. Returns the
\* database, the tasks scheduled and the {path: metadata} mapping.
get(db, paths, content_type, partial, ignore_missing, order, values_order) ==
    GetPaths(db,
             IF content_type # 0 THEN _keep_supported(paths, content_type) ELSE paths,
             content_type, partial, ignore_missing, order, values_order)

\* the query of Archive.for_parent: fs JOIN fs fsr ON fsr.parent_id = fs.id
\* LEFT OUTER JOIN meta ON meta.fs_id = fsr.id WHERE fs.path = path
\* [AND (fsr.content_types & bitmask) = bitmask] ORDER BY fsr.path
ForParentQuery(db, path, bitmask) ==
    JoinAll(db, OrderByPath({fsr.path : fsr \in {x \in db.fs :
                                /\ \E f \in db.fs : f.path = path /\ x.parent_id = f.id
                                /\ Contains(x.content_types, bitmask)}}))

\* Archive.for_parent; content_type 0 stands for None
for_parent(db, path, content_type) ==
    ToDict(_reconstruct_meta(ForParentQuery(db, path, content_type)), EmptyDict)

\* ------------------------------------------------------------- inputs

P_root == EmptyStr

P_a == <<"a">>

P_af == <<"a", "/", "f">>

P_ag == <<"a", "/", "g">>

P_f == <<"f">>

P_b == <<"b">>

P_ab == <<"a", "/", "b">>

A_root == SepStr

A_f == <<"/", "f">>

A_a == <<"/", "a">>

A_af == <<"/", "a", "/", "f">>

A_ab == <<"/", "a", "/", "b">>

A_abf == <<"/", "a", "/", "b", "/", "f">>

\* the files of the content directory; every other path is a directory
FilePaths == {P_af, P_ag, P_f, A_f, A_af, A_abf}

TypeOf(path) == IF path \in FilePaths THEN FILE_TYPE ELSE DIRECTORY_TYPE

\* the data callers pass to save
SaveInputs(paths, bits, metas) ==
    {[path |-> p, type |-> TypeOf(p), content_types |-> b, metadata |-> m] :
        p \in paths, b \in bits, m \in metas}

\* metadata with a valid key and a key outside the specification, and metadata
\* with another valid key
MetaInputs ==
    {EmptyDict,
     Dict1("en", [k \in {"title", "junk"} |-> IF k = "title" THEN <<"t">> ELSE <<"j">>]),
     Dict1("en", Dict1("main", <<"m">>))}

\* the orders in which a set of paths can be iterated
Orders(S) == {o \in [1..Cardinality(S) -> S] :
                \A i, j \in 1..Len(o) : i # j => o[i] # o[j]}

\* ------------------------------------------------------- Archive: scanning

\* the content directory the lister reads: the file f and the directories a,
\* which holds the file a/f and the empty directory a/b, and b, which is empty
ListedDirs(path) ==
    IF path = Dot THEN <<P_a, P_b>>
    ELSE IF path = P_a THEN <<P_ab>>
    ELSE <<>>

ListedFiles(path) ==
    IF path = Dot THEN <<P_f>>
    ELSE IF path = P_a THEN <<P_af>>
    ELSE <<>>

\* fsal.list_dir(path): failing is the set of paths for which the lister
\* reports failure during the call
list_dir(path, failing) ==
    [success |-> path \notin failing,
     dirs |-> ListedDirs(path),
     files |-> ListedFiles(path)]

ROOT_PATH == EmptyStr

\* ``maxdepth=None``
NoDepth == -1

\* ``yield metadata``: the generator hands the batch to its consumer, which
\* runs before the generator resumes; "save_many" is the loop of
\* clear_and_reload, "collect" a caller that only keeps the batches; listed
\* records the directory each batch was yielded for
Yield(a, path, consumer) ==
    [db |-> IF consumer = "save_many" THEN save_many(a.db, a.metas) ELSE a.db,
     batches |-> <<a.metas>>,
     listed |-> <<path>>]

\* the batches of a subfolder follow those yielded so far
YieldFrom(r, s) ==
    [db |-> s.db, batches |-> r.batches \o s.batches, listed |-> r.listed \o s.listed]

\* a variant of the scan that gives up at the first subfolder for which the
\* lister reports failure
RECURSIVE _scan(_, _, _, _, _, _, _)
RECURSIVE ScanDirsUntilFailure(_, _, _, _, _, _, _)
ScanDirsUntilFailure(r, dirs, partial, maxdepth, depth, failing, consumer) ==
    IF Len(dirs) = 0 \/ Head(dirs) \in failing THEN r
    ELSE ScanDirsUntilFailure(YieldFrom(r, _scan(r.db, Head(dirs), partial, maxdepth,
                                                 depth + 1, failing, consumer)),
                              Tail(dirs), partial, maxdepth, depth, failing, consumer)

\* Archive._scan without callback: the database after the generator is
\* exhausted and the batches it yielded, in order
RECURSIVE ScanDirs(_, _, _, _, _, _, _)
ScanDirs(r, dirs, partial, maxdepth, depth, failing, consumer) ==
    IF Len(dirs) = 0 THEN r
    ELSE ScanDirs(YieldFrom(r, _scan(r.db, Head(dirs), partial, maxdepth, depth + 1,
                                     failing, consumer)),
                  Tail(dirs), partial, maxdepth, depth, failing, consumer)

\* a variant of the scan that does not look at maxdepth
ScanListedUnbounded(db, path, listed, partial, maxdepth, depth, failing, consumer) ==
    IF ~listed.success THEN [db |-> db, batches |-> <<>>, listed |-> <<>>]
    ELSE ScanDirs(Yield(AnalyzeAll(db, listed.files, partial, "none", <<>>), path, consumer),
                  listed.dirs, partial, maxdepth, depth, failing, consumer)

\* ``raise StopIteration()`` ends the generator without an error: the module
\* is Python 2 code (u"" literals, and analyze relies on an eager ``map``)
ScanListed(db, path, listed, partial, maxdepth, depth, failing, consumer) ==
    IF ~listed.success THEN [db |-> db, batches |-> <<>>, listed |-> <<>>]
    ELSE IF maxdepth # NoDepth /\ depth = maxdepth
    THEN Yield(AnalyzeAll(db, listed.files, partial, "none", <<>>), path, consumer)
    ELSE ScanDirs(Yield(AnalyzeAll(db, listed.files, partial, "none", <<>>), path, consumer),
                  listed.dirs, partial, maxdepth, depth, failing, consumer)

_scan(db, path, partial, maxdepth, depth, failing, consumer) ==
    ScanListed(db,
               IF path = EmptyStr THEN ROOT_PATH ELSE path,
               list_dir(OrDot(IF path = EmptyStr THEN ROOT_PATH ELSE path), failing),
               partial, maxdepth, depth, failing, consumer)

\* Archive.scan without callback
scan(db, path, partial, maxdepth, failing, consumer) ==
    _scan(db, path, partial, maxdepth, 0, failing, consumer)

\* a variant of the scheduling loop that spaces the subfolders' scans out, each
\* one a delay later than the one before
ScheduledScansSpaced(dirs, partial, callback, maxdepth, depth, delay) ==
    [i \in 1..Len(dirs) |->
        [path |-> dirs[i], partial |-> partial, callback |-> callback,
         maxdepth |-> maxdepth, depth |-> depth + 1, delay |-> delay + i]]

\* the tasks _scan schedules with a callback: one scan per subfolder, each
\* with the kwargs of the loop
ScheduledScans(dirs, partial, callback, maxdepth, depth, delay) ==
    [i \in 1..Len(dirs) |->
        [path |-> dirs[i], partial |-> partial, callback |-> callback,
         maxdepth |-> maxdepth, depth |-> depth + 1, delay |-> delay]]

ScanListedWithCallback(db, path, listed, partial, callback, maxdepth, depth, delay) ==
    IF ~listed.success THEN [db |-> db, scheduled |-> <<>>]
    ELSE [db |-> Yield(AnalyzeAll(db, listed.files, partial, "none", <<>>),
                       path, callback).db,
          scheduled |-> IF maxdepth # NoDepth /\ depth = maxdepth THEN <<>>
                        ELSE ScheduledScans(listed.dirs, partial, callback, maxdepth,
                                            depth, delay)]

\* Archive.scan with a callback: one level is scanned, its batch handed to
\* the callback, and the scans of its subfolders are scheduled
ScanWithCallback(db, path, partial, callback, maxdepth, depth, delay, failing) ==
    ScanListedWithCallback(db,
                           IF path = EmptyStr THEN ROOT_PATH ELSE path,
                           list_dir(OrDot(IF path = EmptyStr THEN ROOT_PATH ELSE path),
                                    failing),
                           partial, callback, maxdepth, depth, delay)

\* functools.reduce(lambda acc, x: acc | x, itypes, default)
RECURSIVE Bitmask(_, _)
Bitmask(metas, acc) ==
    IF Len(metas) = 0 THEN acc
    ELSE Bitmask(Tail(metas), BitOr(acc, Head(metas).content_types))

\* the end of _refresh_parent: ``return self.get(path)[path]``
RefreshGot(g, path) ==
    [db |-> g.db, scheduled |-> g.scheduled, raised |-> FALSE, ret |-> g.ret[path]]

\* _refresh_parent past the scan
RefreshScanned(s, path) ==
    IF Len(s.batches) # 1
    THEN [db |-> s.db, scheduled |-> <<>>, raised |-> TRUE, ret |-> None]
    ELSE RefreshGot(get(save(s.db, [path |-> path,
                                    type |-> DIRECTORY_TYPE,
                                    content_types |-> Bitmask(s.batches[1], GENERIC),
                                    metadata |-> EmptyDict]).db,
                        {path}, 0, TRUE, FALSE, <<path>>, <<path>>),
                    path)

\* Archive._refresh_parent: ``(metas,) = ..`` raises unless the scan yields
\* exactly one batch
_refresh_parent(db, path, failing) ==
    RefreshScanned(scan(db, path, TRUE, 0, failing, "collect"), path)

ParentGot(g, path, failing) ==
    IF g.ret # EmptyDict
    THEN [db |-> g.db, scheduled |-> <<>>, raised |-> FALSE, ret |-> g.ret[path]]
    ELSE _refresh_parent(g.db, path, failing)

\* Archive.parent: the database, the tasks scheduled, whether an error was
\* raised, and the view returned
parent(db, path, force_refresh, failing) ==
    IF force_refresh THEN _refresh_parent(db, path, failing)
    ELSE ParentGot(get(db, {path}, 0, TRUE, TRUE, <<path>>, <<path>>), path, failing)

\* the loop of clear_and_reload over the batches of the scan
clear_and_reload(db, failing) ==
    scan(clear(db), ROOT_PATH, FALSE, NoDepth, failing, "save_many").db

\* ------------------------------------------------------------- actions

\* the database and cache as an operation finds them: the fs rows, the serial,
\* the cache, the meta rows, and the number of storage writes executed so far
TheDb == [fs |-> fs, nextId |-> nextId, cache |-> cache, writes |-> 0, meta |-> meta]

\* the database and cache take the state db; ids stay within MaxId
Commit(db) ==
    /\ db.nextId <= MaxId + 1
    /\ fs' = db.fs
    /\ meta' = db.meta
    /\ cache' = db.cache
    /\ nextId' = db.nextId

\* a caller that is not inside save
NoData == [path |-> EmptyStr, type |-> DIRECTORY_TYPE, content_types |-> 0,
           metadata |-> EmptyDict]

Idle == [pc |-> "idle", data |-> NoData, missing_paths |-> <<>>, created |-> 0,
         last_id |-> 0]

Init ==
    /\ fs = {}
    /\ meta = {}
    /\ cache = {}
    /\ nextId = 1
    /\ tasks = <<>>
    /\ writers = [i \in 1..MaxWriters |-> Idle]
    /\ scans = <<>>

\* Archive.save(data)
Save(data) ==
    /\ Commit(save(TheDb, data).db)
    /\ UNCHANGED <<tasks, writers, scans>>

\* FSWriter(data, ..).update() on a path that has a row
Update(path, content_types) ==
    /\ HasRow(fs, path)
    /\ Commit(update(TheDb, [path |-> path, content_types |-> content_types]).db)
    /\ UNCHANGED <<tasks, writers, scans>>

\* Archive.remove(paths)
Remove(paths) ==
    /\ Commit(remove(TheDb, paths))
    /\ UNCHANGED <<tasks, writers, scans>>

\* Archive.clear()
Clear ==
    /\ Commit(clear(TheDb))
    /\ UNCHANGED <<tasks, writers, scans>>

\* the cache drops an entry whose timeout has passed
Expire(key) ==
    /\ Cached(cache, key)
    /\ cache' = {e \in cache : e.key # key}
    /\ UNCHANGED <<fs, meta, nextId, tasks, writers, scans>>

\* Archive.get(paths, content_type, partial, ignore_missing)
Returned(r) ==
    /\ Len(tasks) + Len(r.scheduled) <= MaxTasks
    /\ Commit(r.db)
    /\ tasks' = tasks \o r.scheduled
    /\ UNCHANGED <<writers, scans>>

Get(paths, content_type, partial, ignore_missing) ==
    \E order \in Orders(paths), values_order \in Orders(paths) :
        Returned(get(TheDb, paths, content_type, partial, ignore_missing,
                     order, values_order))

\* the executor runs a pending task: the full analysis of its paths, each
\* handed to save
RunTask(i) ==
    /\ i \in 1..Len(tasks)
    /\ Commit(AnalyzeAll(TheDb, tasks[i], FALSE, "save", <<>>).db)
    /\ tasks' = SubSeq(tasks, 1, i - 1) \o SubSeq(tasks, i + 1, Len(tasks))
    /\ UNCHANGED <<writers, scans>>

\* Archive.parent(path, force_refresh); an error it raises reaches the caller
\* and leaves the store as it was when raised
Parent(path, force_refresh, failing) ==
    Returned(parent(TheDb, path, force_refresh, failing))

\* a caller exhausts Archive.scan(path, partial, maxdepth)
Scan(path, partial, maxdepth, failing) ==
    /\ Commit(scan(TheDb, path, partial, maxdepth, failing, "collect").db)
    /\ UNCHANGED <<tasks, writers, scans>>

\* Archive.clear_and_reload()
ClearAndReload(failing) ==
    /\ Commit(clear_and_reload(TheDb, failing))
    /\ UNCHANGED <<tasks, writers, scans>>

\* the handler of the ENTRY_POINT_FOUND event
EntryPointFound(path, content_type) ==
    /\ Commit(_entry_point_found(TheDb, path, content_type))
    /\ UNCHANGED <<tasks, writers, scans>>

\* the scans r schedules join the pending ones
ScansScheduled(r, pending) ==
    /\ Len(pending) + Len(r.scheduled) <= MaxScans
    /\ Commit(r.db)
    /\ scans' = pending \o r.scheduled
    /\ UNCHANGED <<tasks, writers>>

\* Archive.scan(path, partial, callback, maxdepth, delay=delay)
ScanAsync(path, partial, callback, maxdepth, delay, failing) ==
    ScansScheduled(ScanWithCallback(TheDb, path, partial, callback, maxdepth, 0, delay,
                                    failing),
                   scans)

\* the executor runs a pending scan: self.scan(**kwargs)
RunScan(i, failing) ==
    /\ i \in 1..Len(scans)
    /\ ScansScheduled(ScanWithCallback(TheDb, scans[i].path, scans[i].partial,
                                       scans[i].callback, scans[i].maxdepth,
                                       scans[i].depth, scans[i].delay, failing),
                      SubSeq(scans, 1, i - 1) \o SubSeq(scans, i + 1, Len(scans)))

\* The writers: a content directory a/ holding the file a/f, callers that
\* save, update, remove and clear with two content types, and cache expiry.
Paths == {P_root, P_a, P_af}

Bits == {TEXT, HTML}

Next ==
    \/ \E data \in SaveInputs(Paths, Bits, {EmptyDict}) : Save(data)
    \/ \E p \in Paths, b \in Bits : Update(p, b)
    \/ \E ps \in SUBSET Paths \ {{}} : Remove(ps)
    \/ Clear
    \/ \E p \in Paths : Expire(_key(p))

Spec == Init /\ [][Next]_vars

\* The readers: a content directory holding the file f, callers that save the
\* file with metadata and read it back through get, and the executor.
ReadPaths == {P_root, P_f}

Filters == {0, TEXT, HTML}

NextRead ==
    \/ \E data \in SaveInputs({P_f}, {TEXT}, MetaInputs) : Save(data)
    \/ \E p \in ReadPaths : Remove({p})
    \/ \E p \in ReadPaths : Expire(_key(p))
    \/ \E ps \in {{P_f}}, ct \in Filters, partial \in BOOLEAN, ignore_missing \in BOOLEAN :
          Get(ps, ct, partial, ignore_missing)
    \/ \E i \in 1..MaxTasks : RunTask(i)

SpecRead == Init /\ [][NextRead]_vars

\* Absolute paths: files one, two and three components deep.
AbsFiles == {A_f, A_af, A_abf}

AbsPaths == {A_root, A_f, A_a, A_af, A_ab, A_abf}

NextAbs ==
    \/ \E data \in SaveInputs(AbsFiles, {TEXT}, {EmptyDict}) : Save(data)
    \/ \E p \in AbsFiles : Remove({p})
    \/ Clear
    \/ \E p \in AbsPaths : Expire(_key(p))

SpecAbs == Init /\ [][NextAbs]_vars

\* Writers only: callers that save and update one at a time, and cache expiry;
\* nothing is removed.
NextWrite ==
    \/ \E data \in SaveInputs(Paths, Bits, {EmptyDict}) : Save(data)
    \/ \E p \in Paths, b \in Bits : Update(p, b)
    \/ \E p \in Paths : Expire(_key(p))

SpecWrite == Init /\ [][NextWrite]_vars

\* Scanning: the content directory of the lister, callers that scan it and
\* reload the store from it while the lister fails for some directory, a
\* caller that saves and removes the file a/f, and cache expiry.
ScanDirectories == {P_a, P_b}

\* the sets of paths for which the lister can report failure: none, the
\* root, or one of the directories
Failing == {{}} \cup {{p} : p \in {Dot, P_ab} \cup ScanDirectories}

\* the values of maxdepth: None, and the depths down to that of a/b
Depths == {NoDepth, 0, 1, 2}

NextScan ==
    \/ \E data \in SaveInputs({P_af}, {TEXT}, {EmptyDict}) : Save(data)
    \/ \E p \in {P_a, P_af} : Remove({p})
    \/ \E p \in {P_root, P_a} : Expire(_key(p))
    \/ \E path \in {P_root, P_a}, partial \in BOOLEAN, maxdepth \in Depths,
             failing \in Failing :
          Scan(path, partial, maxdepth, failing)
    \/ \E failing \in Failing : ClearAndReload(failing)

SpecScan == Init /\ [][NextScan]_vars

\* Directories: callers that ask for the directories a and b while the lister
\* works or fails, the entry point a/i found in a, the tasks that parent
\* schedules, a caller that removes a, and cache expiry.
P_ai == <<"a", "/", "i">>

NextParent ==
    \/ \E p \in ScanDirectories, force_refresh \in BOOLEAN, failing \in {{}, {P_a}, {P_b}} :
          Parent(p, force_refresh, failing)
    \/ EntryPointFound(P_ai, HTML)
    \/ \E p \in ScanDirectories : Remove({p})
    \/ \E p \in {P_root, P_a} : Expire(_key(p))
    \/ \E i \in 1..MaxTasks : RunTask(i)

SpecParent == Init /\ [][NextParent]_vars

\* Scanning with a callback: callers that scan the content directory level by
\* level, with a callback that saves the batches or one that keeps nothing,
\* and the executor that runs the scheduled scans.
Delays == {0, 2}

NextAsync ==
    \/ \E path \in {P_root, P_a}, callback \in {"collect", "save_many"},
             delay \in Delays, failing \in {{}, {P_a}} :
          ScanAsync(path, TRUE, callback, NoDepth, delay, failing)
    \/ \E i \in 1..MaxScans, failing \in {{}, {P_a}} : RunScan(i, failing)
    \/ Expire(_key(P_root))

SpecAsync == Init /\ [][NextAsync]_vars

\* Concurrent callers of save. write() is not atomic: between its statements
\* another caller may run. A caller's steps are the chain lookup (the cache
\* reads and the one SELECT of _get_chain), one _create per missing path, the
\* update of the parent, and the update of the entry with _save_metadata.

\* ``found, missing_paths = self._get_chain(self._path)``
WriteBegin(i, data) ==
    /\ writers[i].pc = "idle"
    /\ cache' = _get_chain(TheDb, data.path).cache
    /\ writers' = [writers EXCEPT ![i] =
                      [pc |-> "create",
                       data |-> data,
                       missing_paths |-> _get_chain(TheDb, data.path).missing,
                       created |-> 0,
                       last_id |-> LastOf(_get_chain(TheDb, data.path).found).id]]
    /\ UNCHANGED <<fs, meta, nextId, tasks, scans>>

Created(i, r) ==
    /\ Commit(r.db)
    /\ writers' = [writers EXCEPT ![i].created = @ + 1, ![i].last_id = r.entry.id]
    /\ UNCHANGED <<tasks, scans>>

\* one turn of ``for missing in missing_paths: last = self._create(..)``
WriteCreate(i) ==
    /\ writers[i].pc = "create"
    /\ writers[i].created < Len(writers[i].missing_paths)
    /\ Created(i, _create(TheDb, writers[i].missing_paths[writers[i].created + 1],
                          writers[i].last_id, writers[i].data.type,
                          CreatedTypes(writers[i].missing_paths[writers[i].created + 1],
                                       writers[i].data)))

\* ``if parent not in missing_paths and ..: self._update(parent, ..)``
WriteUpdateParent(i) ==
    /\ writers[i].pc = "create"
    /\ writers[i].created = Len(writers[i].missing_paths)
    /\ Commit(UpdateParent([db |-> TheDb, entry |-> [id |-> writers[i].last_id]],
                           writers[i].missing_paths, writers[i].data).db)
    /\ writers' = [writers EXCEPT ![i].pc = "self"]
    /\ UNCHANGED <<tasks, scans>>

\* ``if self._path not in missing_paths: last = self._update(..)``, the return
\* of write() and _save_metadata
WriteUpdateSelf(i) ==
    /\ writers[i].pc = "self"
    /\ Commit(SaveMeta(UpdateSelf([db |-> TheDb, entry |-> [id |-> writers[i].last_id]],
                                  writers[i].missing_paths, writers[i].data),
                       writers[i].data).db)
    /\ writers' = [writers EXCEPT ![i] = Idle]
    /\ UNCHANGED <<tasks, scans>>

\* Two callers saving the files a/f and a/g of one directory, and cache expiry.
ConcPaths == {P_root, P_a, P_af, P_ag}

ConcInputs ==
    SaveInputs({P_af}, {TEXT}, {EmptyDict}) \cup SaveInputs({P_ag}, {HTML}, {EmptyDict})

NextConc ==
    \/ \E i \in 1..MaxWriters, data \in ConcInputs : WriteBegin(i, data)
    \/ \E i \in 1..MaxWriters : WriteCreate(i)
    \/ \E i \in 1..MaxWriters : WriteUpdateParent(i)
    \/ \E i \in 1..MaxWriters : WriteUpdateSelf(i)
    \/ \E p \in ConcPaths : Expire(_key(p))

SpecConc == Init /\ [][NextConc]_vars

\* ------------------------------------------------------------- claims

\* the set of elements of a sequence
Range(s) == {s[i] : i \in 1..Len(s)}

\* the stored row of path
RowOf(f, path) == CHOOSE r \in f : r.path = path

\* the proper prefixes of path that end before a separator past the first
\* character, and path itself: "/a/b/f" gives "/a", "/a/b", "/a/b/f"
PrefixesOf(path) ==
    {SubSeq(path, 1, i - 1) : i \in {j \in 2..Len(path) : path[j] = Sep}} \cup {path}

\* the number of components of an absolute path
Components(path) == Cardinality({j \in 1..Len(path) : path[j] = Sep})

\* a {language: {key: value}} mapping as a set of entries
Entries(metadata) ==
    UNION {{<<l, k, metadata[l][k]>> : k \in DOMAIN metadata[l]} : l \in DOMAIN metadata}

\* data's metadata restricted to the valid keys
ValidEntries(metadata) == {e \in Entries(metadata) : e[2] \in ValidKeys}

AllSaveInputs ==
    SaveInputs(Paths, Bits, {EmptyDict}) \cup SaveInputs({P_f}, {TEXT}, MetaInputs)
        \cup SaveInputs({P_root}, {TEXT}, {EmptyDict})
        \cup SaveInputs(AbsFiles, {TEXT}, {EmptyDict})

\* C1: immediately after save(P) returns, the store holds an fs row for P and
\* for every ancestor of P, including the root.
C1_AncestorsStoredAfterSave ==
    [][\A data \in AllSaveInputs :
          Save(data) => \A p \in Range(ancestors_of(data.path)) : HasRow(fs', p)]_vars

\* C2: no orphans: every non-empty path that has an fs row also has an fs row
\* for each of its ancestors, including the root.
C2_NoOrphans ==
    \A r \in fs :
        r.path # EmptyStr => \A p \in Range(ancestors_of(r.path)) : HasRow(fs, p)

\* C3: immediately after save(F) of a FILE F with bits B, the store holds a row
\* for dirname(F) whose content_types is a superset of B.
C3_ParentHoldsFileBits ==
    [][\A data \in AllSaveInputs :
          (data.type = FILE_TYPE /\ Save(data))
              => /\ HasRow(fs', dirname(data.path))
                 /\ Contains(RowOf(fs', dirname(data.path)).content_types,
                             data.content_types)]_vars

\* the store and cache a step leaves, with the write counter reset, as the
\* next call finds them
TheDbNext ==
    [fs |-> fs', nextId |-> nextId', cache |-> cache', writes |-> 0, meta |-> meta']

SecondUpdate(db, path, content_types) ==
    update(db, [path |-> path, content_types |-> content_types])

SecondUpdateIsNoop(db, path, content_types) ==
    /\ SecondUpdate(db, path, content_types).db.writes = 0
    /\ SecondUpdate(db, path, content_types).db.fs = db.fs
    /\ Contains(RowOf(db.fs, path).content_types, content_types)

\* C4: for every path and every two successive states with no clear() between
\* them, the stored content_types of the path in the later state is a bitwise
\* superset of its value in the earlier state.
C4_ContentTypesMonotone ==
    [][\A r \in fs : \A r2 \in fs' :
          r2.path = r.path => Contains(r2.content_types, r.content_types)]_vars

\* C5: update(path, B) on an existing node is idempotent: a second call right
\* after the first issues no write and leaves the stored rows as the first call
\* left them, with B in the node's content_types.
C5_UpdateIdempotent ==
    [][\A p \in Paths \cup ReadPaths, b \in Bits :
          Update(p, b) => SecondUpdateIsNoop(TheDbNext, p, b)]_vars

\* update has added HTML to the stored file a/f and to its cached entry, and,
\* unlike save, has left the file's directory without the bit
C5_Witness ==
    /\ HasRow(fs, P_af) /\ HasRow(fs, P_a)
    /\ Contains(RowOf(fs, P_af).content_types, HTML)
    /\ ~Contains(RowOf(fs, P_a).content_types, HTML)
    /\ Cached(cache, _key(P_af))
    /\ CacheGet(cache, _key(P_af)) = RowOf(fs, P_af)
    /\ SecondUpdateIsNoop(TheDb, P_af, HTML)

\* the keys get(paths) returns, with the default content_type and partial
KeysOfGet(paths, content_type, partial, ignore_missing) ==
    DOMAIN get(TheDb, paths, content_type, partial, ignore_missing,
               SetToSeq(paths), SetToSeq(paths)).ret

StoredOf(paths) == {p \in paths : HasRow(fs, p)}

\* lists of paths to get: a stored or missing file alone, with its directory,
\* and with a file that is never stored
GetLists == {{P_f}, {P_root, P_f}, {P_f, P_af}}

GetFileLists == {{P_f}, {P_f, P_af}}

\* C6 as written: with ignore_missing=True the keys of get(paths) are a strict
\* subset of paths, with ignore_missing=False they are exactly paths.
C6_KeysStrictSubset ==
    /\ \A ps \in GetLists :
          /\ KeysOfGet(ps, 0, TRUE, TRUE) \subseteq ps
          /\ KeysOfGet(ps, 0, TRUE, TRUE) # ps
    /\ \A ps \in GetFileLists : KeysOfGet(ps, 0, TRUE, FALSE) = ps

\* C6: with ignore_missing=True the keys of get(paths) are a subset of paths:
\* the paths that have an fs row when no content_type is given (all of paths
\* when all are stored), some of those under a content_type; with
\* ignore_missing=False and no content_type they are exactly paths.
C6_KeysOfGet ==
    /\ \A ps \in GetLists :
          /\ KeysOfGet(ps, 0, TRUE, TRUE) = StoredOf(ps)
          /\ \A ct \in Filters : KeysOfGet(ps, ct, TRUE, TRUE) \subseteq StoredOf(ps)
    /\ \A ps \in GetFileLists : \A partial \in BOOLEAN :
          KeysOfGet(ps, 0, partial, FALSE) = ps

\* f is stored and a/f is not: ignoring the missing, get returns every path of
\* [f] and only f of [f, a/f]; not ignoring them it returns both
C6_Witness ==
    /\ HasRow(fs, P_f) /\ ~HasRow(fs, P_af)
    /\ KeysOfGet({P_f}, 0, TRUE, TRUE) = {P_f}
    /\ KeysOfGet({P_f, P_af}, 0, TRUE, TRUE) = {P_f}
    /\ KeysOfGet({P_f, P_af}, 0, TRUE, FALSE) = {P_f, P_af}

RoundTripOf(ret, data) ==
    /\ data.path \in DOMAIN ret
    /\ Entries(ret[data.path].metadata) = ValidEntries(data.metadata)

RoundTrip(db, data) ==
    RoundTripOf(get(db, {data.path}, 0, TRUE, FALSE,
                    <<data.path>>, <<data.path>>).ret, data)

\* C7: right after save(data), get([data.path]) returns for data.path a
\* metadata mapping equal to data's metadata restricted to the valid keys, with
\* no additional entries.
C7_SaveGetRoundTrip ==
    [][\A data \in AllSaveInputs : Save(data) => RoundTrip(TheDbNext, data)]_vars

\* C8 as written: on an empty store and cache, save of an absolute FILE path of
\* n components creates n + 1 rows: one per ancestor prefix and a root row
\* whose path is the empty string.
C8_RootRowEmptyPath ==
    [][\A data \in SaveInputs(AbsFiles, {TEXT}, {EmptyDict}) :
          (fs = {} /\ cache = {} /\ Save(data))
              => /\ {r.path : r \in fs'} = PrefixesOf(data.path) \cup {EmptyStr}
                 /\ Cardinality(fs') = Components(data.path) + 1]_vars

\* C8: on an empty store and cache, save of an absolute FILE path of n
\* components creates n + 1 rows: one per ancestor prefix and a root row whose
\* path is "/".
C8_RootRowSlash ==
    [][\A data \in SaveInputs(AbsFiles, {TEXT}, {EmptyDict}) :
          (fs = {} /\ cache = {} /\ Save(data))
              => /\ {r.path : r \in fs'} = PrefixesOf(data.path) \cup {SepStr}
                 /\ Cardinality(fs') = Components(data.path) + 1]_vars

\* /a/b/f saved on the empty store: four rows with the ids 1 to 4
C8_Witness ==
    /\ {r.path : r \in fs} = {A_root, A_a, A_ab, A_abf}
    /\ {r.id : r \in fs} = 1..4
    /\ nextId = 5

\* C9: once the task that get(partial=True) scheduled for a missing path has
\* run, the path has an fs row.
C9_TaskStoresPath ==
    [][\A i \in 1..Len(tasks) :
          RunTask(i) => \A p \in Range(tasks[i]) : HasRow(fs', p)]_vars

RemovedIds(paths) == {r.id : r \in {x \in fs : x.path \in paths}}

\* C10: remove(paths) deletes exactly the fs rows whose path is in paths and the
\* meta rows of those rows; every other fs row, the parents' content_types
\* included, and every other meta row is unchanged.
C10_RemoveFrame ==
    [][\A ps \in SUBSET ReadPaths \ {{}} :
          Remove(ps) => /\ fs' = {r \in fs : r.path \notin ps}
                        /\ meta' = {m \in meta : m.fs_id \notin RemovedIds(ps)}]_vars

\* f was stored and removed: its row and meta rows are gone, its
\* cached entry remains, and the root row keeps the TEXT bit f gave it
C10_Witness ==
    /\ ~HasRow(fs, P_f) /\ HasRow(fs, P_root)
    /\ Cached(cache, _key(P_f))
    /\ \A r \in fs : r.id # CacheGet(cache, _key(P_f)).id
    /\ \A m \in meta : m.fs_id # CacheGet(cache, _key(P_f)).id
    /\ Contains(RowOf(fs, P_root).content_types, TEXT)

\* the paths the cache holds an entry for
CachedPaths(c) == {e.entry.path : e \in c}

\* Q is an ancestor of D other than D itself
IsProperAncestor(q, d) == q # d /\ q \in Range(ancestors_of(d))

\* no cached path has an ancestor that is not cached: the directory of every
\* cached path is cached
Contiguous(c) == \A d \in CachedPaths(c) : Cached(c, _key(dirname(d)))

UniquePaths(f) == \A r1, r2 \in f : (r1.path = r2.path \/ r1.id = r2.id) => r1 = r2

\* the parent_id of every row other than the root is the id of the row of its
\* directory; the root's is DEFAULT_ROOT's
ParentLinked(f) ==
    \A r \in f :
        IF r.path = dirname(r.path) THEN r.parent_id = DEFAULT_ROOT.id
        ELSE \E q \in f : q.path = dirname(r.path) /\ q.id = r.parent_id

\* C12: in every state of every interleaving of two writers, the store holds
\* at most one fs row per path, and the row of a directory has the id its
\* children, created by either writer, recorded as parent_id.
C12_PathUniqueness == UniquePaths(fs) /\ ParentLinked(fs)

\* both writers found a missing and created it, and each stored its file
\* under it
C12_Witness ==
    /\ \A i \in 1..2 : /\ writers[i].pc = "self"
                       /\ InSeq(P_a, writers[i].missing_paths)
    /\ writers[1].data.path # writers[2].data.path
    /\ HasRow(fs, P_af) /\ HasRow(fs, P_ag)
    /\ RowOf(fs, P_af).parent_id = RowOf(fs, P_a).id
    /\ RowOf(fs, P_ag).parent_id = RowOf(fs, P_a).id

\* C13: once two writers that saved the files a/f (TEXT) and a/g (HTML) under
\* the directory a have both completed, the stored content_types of a contains
\* TEXT and HTML.
C13_ConcurrentBitsKept ==
    ((\A i \in 1..MaxWriters : writers[i].pc = "idle")
        /\ HasRow(fs, P_af) /\ HasRow(fs, P_ag) /\ HasRow(fs, P_a))
        => /\ Contains(RowOf(fs, P_a).content_types, TEXT)
           /\ Contains(RowOf(fs, P_a).content_types, HTML)

\* the database as a call finds it when every cache lookup misses
TheDbUncached == [TheDb EXCEPT !.cache = {}]

\* C14: the cache is advisory: from every state that a sequence of operations
\* reaches, save leaves the rows in the store that it leaves when every cache
\* lookup misses, and remove and clear leave the rows they leave without a
\* cache; hence the store after a sequence of operations is the same with the
\* cache and with a cache that always misses.
C14_CacheAdvisory ==
    [][/\ \A data \in SaveInputs(Paths, Bits, {EmptyDict}) :
             Save(data) => fs' = save(TheDbUncached, data).db.fs
       /\ \A ps \in SUBSET Paths \ {{}} :
             Remove(ps) => fs' = remove(TheDbUncached, ps).fs
       /\ Clear => fs' = clear(TheDbUncached).fs]_vars

\* the rows a step has created
CreatedRows == {r \in fs' : ~HasRow(fs, r.path)}

\* C19: every row that save creates for a path other than its target has the
\* type DIRECTORY, whatever the type of the target.
C19_AncestorsAreDirectories ==
    [][\A data \in SaveInputs(Paths, Bits, {EmptyDict}) :
          Save(data) => \A r \in CreatedRows :
                            r.path # data.path => r.type = DIRECTORY_TYPE]_vars

\* C20: a row that save creates holds GENERIC|B when it is the target, or the
\* direct parent of a target that is a file, and exactly GENERIC otherwise.
C20_CreatedContentTypes ==
    [][\A r \in CreatedRows : \A data \in SaveInputs(Paths, Bits, {EmptyDict}) :
          Save(data) =>
              r.content_types =
                  IF r.path = data.path
                     \/ (r.path = dirname(data.path) /\ data.type = FILE_TYPE)
                  THEN BitOr(GENERIC, data.content_types)
                  ELSE GENERIC]_vars

\* one save of the file a/f with HTML has created the root with GENERIC, and a
\* and a/f with GENERIC|HTML
C20_Witness ==
    /\ nextId = 4
    /\ HasRow(fs, P_root) /\ HasRow(fs, P_a) /\ HasRow(fs, P_af)
    /\ RowOf(fs, P_root).content_types = GENERIC
    /\ RowOf(fs, P_a).content_types = BitOr(GENERIC, HTML)
    /\ RowOf(fs, P_af).content_types = BitOr(GENERIC, HTML)
    /\ RowOf(fs, P_af).id = 3

\* C15: parent(path) of a directory that has no row in the store raises no
\* error, whether the lister lists the directory or reports failure for it.
C15_ParentNeverRaises ==
    \A p \in ScanDirectories, failing \in {{}, {P_a}, {P_b}} :
        ~HasRow(fs, p) => ~parent(TheDb, p, FALSE, failing).raised

\* the batch a scan yields for a directory: the analysis of the files listed
\* in it
BatchOf(dir, partial) ==
    [i \in 1..Len(ListedFiles(dir)) |-> ProcessFile(ListedFiles(dir)[i], partial)]

\* the batches of the directories of dirs for which the lister does not fail
RECURSIVE BatchesOfDirs(_, _, _)
BatchesOfDirs(dirs, partial, failing) ==
    IF Len(dirs) = 0 THEN <<>>
    ELSE (IF Head(dirs) \in failing THEN <<>>
          ELSE <<BatchOf(Head(dirs), partial)>>
                   \o BatchesOfDirs(ListedDirs(Head(dirs)), partial, failing))
             \o BatchesOfDirs(Tail(dirs), partial, failing)

\* the batches of a scan from the root in which a directory for which the
\* lister fails contributes nothing and the other directories their batch
ExpectedBatches(partial, failing) ==
    IF Dot \in failing THEN <<>>
    ELSE <<BatchOf(Dot, partial)>> \o BatchesOfDirs(ListedDirs(Dot), partial, failing)

ScannedBatches(partial, failing) ==
    scan(TheDb, P_root, partial, NoDepth, failing, "collect").batches

\* C16: in a synchronous scan from the root, a directory for which the lister
\* reports failure contributes no batch and no path below it is listed, while
\* the batches yielded before it and those of the remaining sibling
\* directories are the ones a scan without the failure yields.
C16_ScanSkipsFailedSubtree ==
    \A partial \in BOOLEAN, failing \in Failing :
        /\ ScannedBatches(partial, failing) = ExpectedBatches(partial, failing)
        /\ \A d \in failing :
              \A i \in 1..Len(ScannedBatches(partial, failing)) :
                  \A j \in 1..Len(ScannedBatches(partial, failing)[i]) :
                      ~IsProperAncestor(d, ScannedBatches(partial, failing)[i][j].path)

\* the store holds a/f; a scan during which the lister fails for a yields the
\* batch of the root and the empty batch of b, and a scan without failure the
\* batches of a and a/b between them
C16_Witness ==
    /\ HasRow(fs, P_af)
    /\ ScannedBatches(TRUE, {P_a}) = <<BatchOf(Dot, TRUE), <<>>>>
    /\ ScannedBatches(TRUE, {}) = <<BatchOf(Dot, TRUE), BatchOf(P_a, TRUE), <<>>, <<>>>>
    /\ BatchOf(P_a, TRUE)[1].path = P_af

\* what the entry-point handler has to leave in the database db for the event
\* (path, content_type)
EntryPointStored(db, path, content_type) ==
    /\ \A q \in Range(ancestors_of(dirname(path))) : HasRow(db.fs, q)
    /\ \E r \in db.fs :
          /\ r.path = dirname(path)
          /\ Contains(r.content_types, content_type)
          /\ \E m \in db.meta : /\ m.fs_id = r.id
                                /\ m.language = NO_LANGUAGE
                                /\ m.key = "main"
                                /\ m.value = basename(path)

\* C17: after the entry-point handler has run for (path, content_type), the
\* store holds the row of dirname(path) and of each of its ancestors, the
\* row's content_types contains content_type, and the row owns the
\* language-independent meta entry main = basename(path).
C17_EntryPointStored ==
    [][EntryPointFound(P_ai, HTML) => EntryPointStored(TheDbNext, P_ai, HTML)]_vars

\* the paths of the files in the batches of a scan
ListedPaths(batches) ==
    {batches[i][j].path : <<i, j>> \in {x \in (1..4) \X (1..1) :
                                            /\ x[1] <= Len(batches)
                                            /\ x[2] <= Len(batches[x[1]])}}

\* the files the lister returns in a recursive scan from the root, and their
\* ancestors
Reloaded(failing) ==
    UNION {Range(ancestors_of(f)) : f \in ListedPaths(ScannedBatches(FALSE, failing))}

\* C18: after clear_and_reload the store holds a row for every file the lister
\* returns in the recursive scan from the root and for every ancestor of such
\* a file, and no other row.
C18_ReloadRestoresListed ==
    [][\A failing \in Failing :
          ClearAndReload(failing) => {r.path : r \in fs'} = Reloaded(failing)]_vars

\* the rows of before are in after as they were, except that the
\* content_types of the target, and of its direct parent when the target is a
\* file, may differ
FrameKept(before, after, data) ==
    \A r \in before :
        \/ r \in after
        \/ /\ r.path = data.path
                 \/ (r.path = dirname(data.path) /\ data.type = FILE_TYPE)
           /\ \E r2 \in after : r2 = [r EXCEPT !.content_types = r2.content_types]

\* C21: from every reachable state, a save for the target T leaves every row
\* the store already held as it was, except that the content_types of T
\* itself, and of the direct parent of T when T is a file, may change; no
\* other column of those two rows changes.
C21_WriteFrame ==
    \A data \in SaveInputs(Paths, Bits, {EmptyDict}) :
        FrameKept(fs, save(TheDb, data).db.fs, data)

\* saves of the file a/f with TEXT and then HTML have changed the rows a/f
\* and a, and left the root, which the first save created, with GENERIC
C21_Witness ==
    /\ nextId = 4
    /\ HasRow(fs, P_root) /\ HasRow(fs, P_a) /\ HasRow(fs, P_af)
    /\ RowOf(fs, P_root).content_types = GENERIC
    /\ RowOf(fs, P_a).content_types = BitOr(GENERIC, BitOr(TEXT, HTML))
    /\ RowOf(fs, P_af).content_types = BitOr(GENERIC, BitOr(TEXT, HTML))

\* the paths of the rows stored directly under the directory dir
StoredChildren(f, dir) == {r.path : r \in {x \in f : x.path # dir /\ dirname(x.path) = dir}}

\* C22: in every reachable state, the parent_id of every row with a non-root
\* path is the id of the row stored at the dirname of its path, the root row
\* has parent_id 0, and for_parent(D) returns exactly the rows stored directly
\* under D.
C22_ParentLinkInvariant ==
    /\ ParentLinked(fs)
    /\ \A dir \in Paths : DOMAIN for_parent(TheDb, dir, 0) = StoredChildren(fs, dir)

\* get(paths, content_type, partial, ignore_missing=True) from the present
\* state
GetFound(paths, content_type, partial) ==
    get(TheDb, paths, content_type, partial, TRUE, OrderByPath(paths), OrderByPath(paths))

\* the call g left the database as it was, scheduled nothing and returned only
\* paths that have a row
NoSideEffect(g) ==
    /\ g.db = TheDb
    /\ g.scheduled = <<>>
    /\ \A p \in DOMAIN g.ret : HasRow(fs, p) /\ g.ret[p].id = RowOf(fs, p).id

\* C23: get(paths, ignore_missing=True) has no side effect: it writes nothing
\* to the store or the cache, schedules no task, and returns only paths that
\* have a row in the store, with that row's fields and no placeholder from an
\* analysis.
C23_GetFoundOnly ==
    \A paths \in {{P_f}, {P_root, P_f}}, content_type \in Filters, partial \in BOOLEAN :
        NoSideEffect(GetFound(paths, content_type, partial))

\* the row of f has been removed and its cache entry is still there: get with
\* ignore_missing returns the root alone
C23_Witness ==
    /\ HasRow(fs, P_root) /\ ~HasRow(fs, P_f)
    /\ Cached(cache, _key(P_f))
    /\ DOMAIN GetFound({P_root, P_f}, 0, TRUE).ret = {P_root}
    /\ GetFound({P_f}, 0, FALSE).ret = EmptyDict

\* the directories at depth <= maxdepth below path, path included, that the
\* lister lists and reaches: none of them, or of the directories between path
\* and them, is in failing
RECURSIVE Reached(_, _, _)
Reached(path, maxdepth, failing) ==
    IF OrDot(path) \in failing THEN {}
    ELSE {path} \cup
         (IF maxdepth = 0 THEN {}
          ELSE UNION {Reached(ListedDirs(OrDot(path))[i],
                              IF maxdepth = NoDepth THEN NoDepth ELSE maxdepth - 1,
                              failing) :
                         i \in 1..Len(ListedDirs(OrDot(path)))})

\* s yields one batch for each directory of dirs, and no other, a directory
\* before the directories below it and the whole subtree of a directory before
\* anything that follows it
PreOrder(s, dirs, partial) ==
    /\ Len(s.listed) = Cardinality(dirs)
    /\ Range(s.listed) = dirs
    /\ Len(s.batches) = Len(s.listed)
    /\ \A i \in 1..Len(s.listed) : s.batches[i] = BatchOf(OrDot(s.listed[i]), partial)
    /\ \A i, k \in 1..Len(s.listed) :
          i < k => /\ ~IsProperAncestor(s.listed[k], s.listed[i])
                   /\ IsProperAncestor(s.listed[i], s.listed[k])
                          => \A j \in i + 1..k : IsProperAncestor(s.listed[i], s.listed[j])

ScannedTo(path, partial, maxdepth, failing) ==
    scan(TheDb, path, partial, maxdepth, failing, "collect")

\* C24: a synchronous scan(path, maxdepth=m) yields exactly one batch for each
\* successfully listed directory at depth <= m below path, in depth-first
\* pre-order, lists no directory deeper than m, and with maxdepth=0 yields
\* exactly one batch when path is listed.
C24_ScanPreOrder ==
    \A path \in {P_root, P_a}, partial \in BOOLEAN, maxdepth \in Depths, failing \in Failing :
        /\ PreOrder(ScannedTo(path, partial, maxdepth, failing),
                    Reached(path, maxdepth, failing), partial)
        /\ (maxdepth = 0 /\ OrDot(path) \notin failing)
              => Len(ScannedTo(path, partial, maxdepth, failing).batches) = 1

\* with a/f stored, a scan from the root lists the root, a, a/b and then b; to
\* depth 1 it leaves a/b out, and to depth 0 it lists the root alone
C24_Witness ==
    /\ HasRow(fs, P_af)
    /\ ScannedTo(P_root, TRUE, NoDepth, {}).listed = <<P_root, P_a, P_ab, P_b>>
    /\ ScannedTo(P_root, TRUE, 1, {}).listed = <<P_root, P_a, P_b>>
    /\ ScannedTo(P_root, TRUE, 0, {}).listed = <<P_root>>

\* the scans a step has scheduled: those past the ones that were pending
NewScans == SubSeq(scans', Len(scans) + 1, Len(scans'))

\* C25: a scan with a callback schedules one task for the scan of each
\* subfolder, and the delays of the tasks scheduled for successive subfolders
\* are strictly increasing.
C25_AsyncDelaysIncrease ==
    [][\A path \in {P_root, P_a}, callback \in {"collect", "save_many"}, delay \in Delays :
          ScanAsync(path, TRUE, callback, NoDepth, delay, {}) =>
              /\ [i \in 1..Len(NewScans) |-> NewScans[i].path] = ListedDirs(OrDot(path))
              /\ \A i, j \in 1..Len(NewScans) :
                    i < j => NewScans[i].delay < NewScans[j].delay]_vars

\* C25, as the code has it: a scan with a callback schedules one task for the
\* scan of each subfolder, one level deeper, and every one of them with the
\* delay the scan itself was given.
C25_AsyncSameDelay ==
    [][\A path \in {P_root, P_a}, callback \in {"collect", "save_many"}, delay \in Delays :
          ScanAsync(path, TRUE, callback, NoDepth, delay, {}) =>
              /\ [i \in 1..Len(NewScans) |-> NewScans[i].path] = ListedDirs(OrDot(path))
              /\ \A i \in 1..Len(NewScans) :
                    /\ NewScans[i].delay = delay
                    /\ NewScans[i].depth = 1
                    /\ NewScans[i].callback = callback]_vars

\* the scan of the root with a delay of 2 has scheduled the scans of a and of
\* b, both with the delay 2
C25_Witness ==
    /\ Len(scans) = 2
    /\ scans[1].path = P_a /\ scans[2].path = P_b
    /\ scans[1].delay = 2 /\ scans[2].delay = 2

\* C26: after parent(path, force_refresh=True) on a directory the lister
\* lists, the stored content_types of the directory is GENERIC OR'd with the
\* bitmasks the partial analysis gives its immediate files, and nothing else.
C26_RefreshRecomputes ==
    [][\A p \in ScanDirectories :
          Parent(p, TRUE, {}) =>
              \E r \in fs' : /\ r.path = p
                             /\ r.content_types = Bitmask(BatchOf(p, TRUE), GENERIC)]_vars

\* the rows of the query of get for the root and f: sorted by path, one row
\* per meta entry, and a row with null meta columns for a path without any
QueriedRows == GetQuery(TheDb, {P_root, P_f}, 0)

\* the meta entries of a view, and those of the rows of a path
EntriesOfView(v) ==
    {<<l, k, v.metadata[l][k]>> : <<l, k>> \in
        {x \in (DOMAIN v.metadata) \X ValidKeys : x[2] \in DOMAIN v.metadata[x[1]]}}

EntriesOfRows(rows, path) ==
    {<<rows[i].language, rows[i].key, rows[i].value>> :
        i \in {j \in 1..Len(rows) : rows[j].path = path /\ rows[j].key # Null}}

\* views holds one view per distinct path of rows, in the order of rows, each
\* with the fs fields of its path and exactly the meta entries of its rows
ReconstructedFrom(views, rows) ==
    /\ Len(views) = Cardinality({rows[i].path : i \in 1..Len(rows)})
    /\ \A i \in 1..Len(rows) : \E n \in 1..Len(views) : views[n].path = rows[i].path
    /\ \A i, j \in 1..Len(rows), m, n \in 1..Len(views) :
          (i < j /\ views[m].path = rows[i].path /\ views[n].path = rows[j].path) => m <= n
    /\ \A n \in 1..Len(views) :
          /\ \E i \in 1..Len(rows) :
                /\ rows[i].path = views[n].path
                /\ rows[i].id = views[n].id
                /\ rows[i].parent_id = views[n].parent_id
                /\ rows[i].type = views[n].type
                /\ rows[i].content_types = views[n].content_types
          /\ \A l \in DOMAIN views[n].metadata : DOMAIN views[n].metadata[l] \subseteq ValidKeys
          /\ EntriesOfView(views[n]) = EntriesOfRows(rows, views[n].path)

\* C27: from the rows of a query, sorted by path, _reconstruct_meta produces
\* exactly one view per distinct path, in input order; the view holds exactly
\* the entries of the rows of its path that have a key, and a path whose only
\* row has a null key yields a view with the fs fields and no meta entry.
C27_ReconstructMeta ==
    /\ ReconstructedFrom(_reconstruct_meta(QueriedRows), QueriedRows)
    /\ \A n \in 1..Len(_reconstruct_meta(QueriedRows)) :
          (\A i \in 1..Len(QueriedRows) :
              QueriedRows[i].path = _reconstruct_meta(QueriedRows)[n].path
                  => QueriedRows[i].key = Null)
              => _reconstruct_meta(QueriedRows)[n].metadata = EmptyDict

\* f owns two meta entries and the root none: three rows give two views, the
\* root's without metadata and f's with both entries
C27_Witness ==
    /\ Len(QueriedRows) = 3
    /\ Len(_reconstruct_meta(QueriedRows)) = 2
    /\ _reconstruct_meta(QueriedRows)[1].path = P_root
    /\ _reconstruct_meta(QueriedRows)[1].metadata = EmptyDict
    /\ Cardinality(EntriesOfView(_reconstruct_meta(QueriedRows)[2])) = 2

\* C28: in every reachable state, the fs_id of every meta entry is the id of a
\* row of the store.
C28_MetaOwned == \A m \in meta : \E r \in fs : r.id = m.fs_id

\* C29: in every state reached by saves, updates and cache expiry alone, the
\* cached entry of a path has the id of the stored row of the path, and its
\* content_types holds no bit that the stored content_types lacks.
C29_CacheSound ==
    \A e \in cache :
        \E r \in fs : /\ r.path = e.entry.path
                      /\ e.key = _key(r.path)
                      /\ r.id = e.entry.id
                      /\ Contains(r.content_types, e.entry.content_types)

\* updates have added HTML to a/f after a save with TEXT; the entry of a has
\* expired, and the cached entry of a/f holds what the stored row holds, more
\* than the stored row of a
C29_Witness ==
    /\ HasRow(fs, P_a) /\ HasRow(fs, P_af)
    /\ ~Cached(cache, _key(P_a)) /\ Cached(cache, _key(P_af))
    /\ CacheGet(cache, _key(P_af)).content_types = BitOr(GENERIC, BitOr(TEXT, HTML))
    /\ RowOf(fs, P_af).content_types = BitOr(GENERIC, BitOr(TEXT, HTML))
    /\ RowOf(fs, P_a).content_types = BitOr(GENERIC, TEXT)

====
